---------------------------- MODULE Spec2Model ----------------------------
(***************************************************************************)
(* FastSync pc-receiver: the notification-action pipeline, and the host's  *)
(* startup, discovery record and local IP selection.                       *)
(*                                                                         *)
(* Text is a sequence of characters, each character a one-token string;    *)
(* "CJK" stands for one character that takes three bytes in UTF-8.         *)
(***************************************************************************)
EXTENDS Integers, Sequences, FiniteSets, TLC

VARIABLES
    job,        \* SpecText: the decoded text payload handed to a markup builder
    markup,     \* SpecText: the markup fields the builder produced, or NoMarkup
    cw,         \* SpecCopy: the worker thread copy_to_clipboard spawns
    clipboard,  \* the system clipboard (arboard): empty, a text or an image
    reqs,       \* the requests received so far, in arrival order, each with its
                \* response status and the progress of its notification work
    surface,    \* the toasts the OS notification surface shows
    store,      \* NOTIFICATION_STORAGE: the keyed map of notification handles
    leaked,     \* handles given to Box::leak
    fs,         \* the files written, by path
    now,        \* chrono::Utc::now().timestamp_millis()
    ifaces,     \* what list_afinet_netifas() returns on this host
    boot,       \* startup: how far main got, the discovery record, the tray's IP
    timer,      \* SpecExpiry: a notification under construction and its expiry
    mutex,      \* the Mutex around NOTIFICATION_STORAGE: Free, or the request
                \* whose handler holds the guard
    loop        \* the tray event loop: control flow, tray icon, dialogs shown

textvars == <<job, markup>>

copyvars == <<cw>>

sysvars == <<reqs, surface, store, leaked, fs, now>>

hostvars == <<ifaces, boot, timer, mutex, loop>>

vars ==
    <<job, markup, cw, clipboard, reqs, surface, store, leaked, fs, now, ifaces, boot,
      timer, mutex, loop>>

(***************************************************************************)
(* Bounds                                                                  *)
(***************************************************************************)
\* how many tokens are concatenated to form an input to the escaping
MaxTokens == 2
\* how far around the preview limit the input lengths range
MaxExtra == 2
\* largest width and height a decoder reports
MaxDim == 2
\* how many requests are received
MaxReq == 2
\* how many fields a multipart body has at most
MaxFields == 2
\* the last millisecond the clock reaches
MaxClock == 1

(***************************************************************************)
(* Text helpers (Rust str semantics)                                       *)
(***************************************************************************)
\* the three characters of the literal "..." appended by format!("{}...")
Ellipsis == <<".", ".", ".">>

\* text.chars().count()
CharCount(s) == Len(s)

\* text.chars().take(n).collect::<String>()
Take(s, n) == SubSeq(s, 1, IF Len(s) < n THEN Len(s) ELSE n)

\* pat occurs in s at position i
Occurs(s, pat, i) ==
    /\ i + Len(pat) - 1 <= Len(s)
    /\ SubSeq(s, i, i + Len(pat) - 1) = pat

\* what position i of s contributes to s.replace(pat, rep): the replacement at
\* the start of a match, nothing inside a match, the character itself elsewhere
ReplacePiece(s, pat, rep, i) ==
    IF Occurs(s, pat, i) THEN rep
    ELSE IF \E j \in (i - Len(pat) + 1)..(i - 1) : j >= 1 /\ Occurs(s, pat, j) THEN <<>>
    ELSE <<s[i]>>

RECURSIVE ReplaceRange(_, _, _, _, _)
ReplaceRange(s, pat, rep, lo, hi) ==
    IF lo > hi THEN <<>>
    ELSE IF lo = hi THEN ReplacePiece(s, pat, rep, lo)
    ELSE LET mid == (lo + hi) \div 2
         IN  ReplaceRange(s, pat, rep, lo, mid) \o ReplaceRange(s, pat, rep, mid + 1, hi)

\* str::replace(pat, rep): every non-overlapping match, left to right. The
\* patterns used here ("&", "<", ">", "&amp;", "&lt;", "&gt;") cannot overlap
\* themselves, so the matches are exactly the occurrences.
ReplaceAll(s, pat, rep) == ReplaceRange(s, pat, rep, 1, Len(s))

Amp == <<"&", "a", "m", "p", ";">>
Lt == <<"&", "l", "t", ";">>
Gt == <<"&", "g", "t", ";">>

\* a plausible slip: the angle brackets are replaced before the ampersand
EscapeBracketsFirst(s) ==
    ReplaceAll(ReplaceAll(ReplaceAll(s, <<"<">>, Lt), <<">">>, Gt), <<"&">>, Amp)

\* .replace("&", "&amp;").replace("<", "&lt;").replace(">", "&gt;")
Escape(s) ==
    ReplaceAll(ReplaceAll(ReplaceAll(s, <<"&">>, Amp), <<"<">>, Lt), <<">">>, Gt)

\* the preview limit of the clipboard notification body
PreviewLimit == 100

\* let preview = if text.chars().count() > 100 { take(100) + "..." } else { text }
Preview(text) ==
    IF CharCount(text) > PreviewLimit
    THEN Take(text, PreviewLimit) \o Ellipsis
    ELSE text

\* a plausible slip: the copy_code action is always offered
SmsActionsAlways(code) == <<"copy_content", "copy_code", "ignore">>

\* the <action .../> elements of the SMS toast, in document order
SmsActions(code) ==
    <<"copy_content">>
        \o (IF code # <<>> THEN <<"copy_code">> ELSE <<>>)
        \o <<"ignore">>

\* the <action .../> elements of the clipboard toast
ClipboardActions == <<"copy_clipboard", "ignore">>

\* the <action .../> elements of the photo toast
PhotoActions == <<"save", "copy", "ignore">>

\* no payload, no markup built
NoJob == [class |-> "none"]
NoMarkup == [class |-> "none"]

\* the fields show_sms_notification formats into its toast XML; `preview` is the
\* text that is escaped into the second <text> element
SmsMarkup(p) ==
    [class   |-> "sms",
     title   |-> Escape(p.sender),
     preview |-> p.content,
     body    |-> Escape(p.content),
     actions |-> SmsActions(p.code)]

\* the fields show_clipboard_notification formats into its toast XML
ClipboardMarkup(text) ==
    [class   |-> "clipboard",
     title   |-> <<>>,
     preview |-> Preview(text),
     body    |-> Escape(Preview(text)),
     actions |-> ClipboardActions]

(***************************************************************************)
(* Photo copy: the two-stage decode and the clipboard write                *)
(***************************************************************************)
\* the system clipboard before anything was written to it
EmptyClipboard == [kind |-> "empty"]

\* no worker thread has been spawned
NoWorker == [pc |-> "none"]

(***************************************************************************)
(* The receiver's state before any request                                 *)
(***************************************************************************)
\* std::env::temp_dir().join(format!("fastsync_{}.png", timestamp_millis))
TempName(t) == <<"fastsync", t>>

TempPaths == {TempName(t) : t \in 0..MaxClock}

\* the paths the save dialog can return (the default file name is image.png)
UserPaths == {<<"image", 0>>}

Paths == TempPaths \cup UserPaths

NoFile == [exists |-> FALSE]

SysIdle ==
    /\ reqs = <<>>
    /\ surface = {}
    /\ store = {}
    /\ leaked = {}
    /\ fs = [p \in Paths |-> NoFile]
    /\ now = 0
    /\ clipboard = EmptyClipboard

TextIdle ==
    /\ job = NoJob
    /\ markup = NoMarkup

CopyIdle == cw = NoWorker

\* the sequences over S of length at most n
RECURSIVE SeqsUpTo(_, _)
SeqsUpTo(S, n) ==
    IF n = 0 THEN {<<>>}
    ELSE LET shorter == SeqsUpTo(S, n - 1)
         IN  shorter \cup {Append(q, x) : q \in shorter, x \in S}

(***************************************************************************)
(* The host: local IP selection (tray.rs)                                  *)
(***************************************************************************)
\* char::to_lowercase for the ASCII letters
UpperCase ==
    <<"A", "B", "C", "D", "E", "F", "G", "H", "I", "J", "K", "L", "M",
      "N", "O", "P", "Q", "R", "S", "T", "U", "V", "W", "X", "Y", "Z">>

LowerCase ==
    <<"a", "b", "c", "d", "e", "f", "g", "h", "i", "j", "k", "l", "m",
      "n", "o", "p", "q", "r", "s", "t", "u", "v", "w", "x", "y", "z">>

\* str::to_lowercase
ToLower(s) ==
    [i \in 1..Len(s) |->
        IF \E k \in 1..26 : UpperCase[k] = s[i]
        THEN LowerCase[CHOOSE k \in 1..26 : UpperCase[k] = s[i]]
        ELSE s[i]]

\* str::contains
Contains(s, pat) == \E i \in 1..(Len(s) - Len(pat) + 1) : Occurs(s, pat, i)

\* str::starts_with
StartsWith(s, pat) == Len(pat) <= Len(s) /\ SubSeq(s, 1, Len(pat)) = pat

HexDigits ==
    <<"0", "1", "2", "3", "4", "5", "6", "7", "8", "9", "a", "b", "c", "d", "e", "f">>

\* the digits of n in the given base, without leading zeros
RECURSIVE Radix(_, _)
Radix(n, base) ==
    IF n < base THEN <<HexDigits[n + 1]>>
    ELSE Radix(n \div base, base) \o <<HexDigits[(n % base) + 1]>>

\* the pieces joined with the separator sep between them
RECURSIVE Join(_, _)
Join(pieces, sep) ==
    IF pieces = <<>> THEN <<>>
    ELSE IF Len(pieces) = 1 THEN pieces[1]
    ELSE pieces[1] \o <<sep>> \o Join(Tail(pieces), sep)

\* Display of Ipv4Addr: the four octets in decimal
V4String(o) == Join([i \in 1..4 |-> Radix(o[i], 10)], ".")

\* the number of zero groups in a row from group i on
RECURSIVE ZeroRun(_, _)
ZeroRun(g, i) == IF i > Len(g) \/ g[i] # 0 THEN 0 ELSE 1 + ZeroRun(g, i + 1)

\* Display of Ipv6Addr: an IPv4-mapped address as ::ffff:a.b.c.d; otherwise
\* the groups in hex with the first longest run of two or more zero groups
\* written as "::"
V6String(g) ==
    IF ZeroRun(g, 1) = 5 /\ g[6] = 65535
    THEN <<":", ":", "f", "f", "f", "f", ":">>
             \o V4String(<<g[7] \div 256, g[7] % 256, g[8] \div 256, g[8] % 256>>)
    ELSE LET longest == CHOOSE i \in 1..8 :
                            /\ \A j \in 1..8 : ZeroRun(g, j) <= ZeroRun(g, i)
                            /\ \A j \in 1..(i - 1) : ZeroRun(g, j) < ZeroRun(g, i)
             run == ZeroRun(g, longest)
             hex == [i \in 1..8 |-> Radix(g[i], 16)]
         IN  IF run < 2 THEN Join(hex, ":")
             ELSE Join(SubSeq(hex, 1, longest - 1), ":") \o <<":", ":">>
                      \o Join(SubSeq(hex, longest + run, 8), ":")

\* ip.to_string()
IpString(ip) == IF ip.v = 4 THEN V4String(ip.o) ELSE V6String(ip.g)

V4(a, b, c, d) == [v |-> 4, o |-> <<a, b, c, d>>]

V6(g) == [v |-> 6, g |-> g]

\* the names that mark a virtual adapter
VirtualMarks ==
    {<<"w", "s", "l">>, <<"d", "o", "c", "k", "e", "r">>,
     <<"v", "e", "t", "h", "e", "r", "n", "e", "t">>,
     <<"t", "a", "i", "l", "s", "c", "a", "l", "e">>,
     <<"m", "e", "t", "a">>, <<"l", "o", "o", "p", "b", "a", "c", "k">>}

\* is_virtual
IsVirtual(name) == \E mark \in VirtualMarks : Contains(ToLower(name), mark)

\* the addresses skipped: ip_str.starts_with("127.") || starts_with("169.254.")
Skipped(ip_str) ==
    \/ StartsWith(ip_str, <<"1", "2", "7", ".">>)
    \/ StartsWith(ip_str, <<"1", "6", "9", ".", "2", "5", "4", ".">>)

\* priority
Priority(ip_str) ==
    IF StartsWith(ip_str, <<"1", "9", "2", ".", "1", "6", "8", ".">>) THEN 3
    ELSE IF StartsWith(ip_str, <<"1", "0", ".">>)
              \/ StartsWith(ip_str, <<"1", "7", "2", ".">>) THEN 2
    ELSE 1

\* the for loop: candidates.push((priority, !is_virtual, ip_str))
RECURSIVE Candidates(_)
Candidates(interfaces) ==
    IF interfaces = <<>> THEN <<>>
    ELSE LET ip_str == IpString(interfaces[1].ip)
             rest == Candidates(Tail(interfaces))
         IN  IF Skipped(ip_str) THEN rest
             ELSE <<[priority |-> Priority(ip_str),
                     real     |-> ~IsVirtual(interfaces[1].name),
                     ip       |-> ip_str]>> \o rest

\* a plausible slip: the adapter kind is compared before the prefix rank
CompareRealFirst(a, b) ==
    IF a.real # b.real THEN (IF a.real THEN -1 ELSE 1)
    ELSE IF a.priority # b.priority THEN (IF a.priority > b.priority THEN -1 ELSE 1)
    ELSE 0

\* the closure of sort_by, b.0.cmp(&a.0).then(b.1.cmp(&a.1)): -1 (Less) puts
\* a before b, 1 (Greater) puts it after, 0 (Equal) keeps their order
Compare(a, b) ==
    IF a.priority # b.priority THEN (IF a.priority > b.priority THEN -1 ELSE 1)
    ELSE IF a.real # b.real THEN (IF a.real THEN -1 ELSE 1)
    ELSE 0

\* x put into a sorted sequence behind every element that does not sort after it
StableInsert(sorted, x) ==
    LET k == Cardinality({i \in 1..Len(sorted) : Compare(sorted[i], x) <= 0})
    IN  SubSeq(sorted, 1, k) \o <<x>> \o SubSeq(sorted, k + 1, Len(sorted))

\* slice::sort_by, a stable sort
RECURSIVE SortBy(_)
SortBy(seq) ==
    IF seq = <<>> THEN <<>>
    ELSE StableInsert(SortBy(SubSeq(seq, 1, Len(seq) - 1)), seq[Len(seq)])

NoAddress == [some |-> FALSE]

\* get_best_local_ip, for what list_afinet_netifas() returned
get_best_local_ip(net) ==
    IF ~net.ok THEN NoAddress
    ELSE LET candidates == SortBy(Candidates(net.list))
         IN  IF candidates = <<>> THEN NoAddress
             ELSE [some |-> TRUE, ip |-> candidates[1].ip]

\* interface names
Eth0 == <<"e", "t", "h", "0">>
Eth1 == <<"e", "t", "h", "1">>
Docker0 == <<"d", "o", "c", "k", "e", "r", "0">>
Lo == <<"l", "o">>
Wsl == <<"W", "S", "L">>

\* the interfaces a host can have
Interfaces ==
    {[name |-> Eth0,    ip |-> V4(192, 168, 1, 5)],
     [name |-> Docker0, ip |-> V4(172, 17, 0, 1)],
     [name |-> Lo,      ip |-> V4(127, 0, 0, 1)],
     [name |-> Wsl,     ip |-> V4(192, 168, 9, 1)],
     [name |-> Eth1,    ip |-> V4(10, 0, 0, 2)],
     [name |-> Eth1,    ip |-> V4(169, 254, 1, 1)],
     [name |-> Eth0,    ip |-> V4(8, 8, 8, 8)],
     [name |-> Lo,      ip |-> V6(<<0, 0, 0, 0, 0, 0, 0, 1>>)],
     [name |-> Eth0,    ip |-> V6(<<65152, 0, 0, 0, 0, 0, 0, 1>>)],
     [name |-> Eth1,    ip |-> V6(<<8193, 3512, 0, 0, 0, 0, 0, 5>>)]}

\* list_afinet_netifas() failed
NetError == [ok |-> FALSE]

Nets(lists) == {NetError} \cup [ok : {TRUE}, list : lists]

(***************************************************************************)
(* The host: startup and discovery (main.rs)                               *)
(***************************************************************************)
\* SocketAddr::from(([0, 0, 0, 0], 3000))
ListenPort == 3000

\* let port = 3000 in start_mdns_broadcast
MdnsPort == 3000

\* let ip = "0.0.0.0" in start_mdns_broadcast
MdnsIp == <<"0", ".", "0", ".", "0", ".", "0">>

\* hostname::get(), or "fast-sync-pc" when it fails; a name is a sequence of
\* text pieces
Hostnames == {<<"desk">>, <<"fast-sync-pc">>}

NoRecord == [registered |-> FALSE]

\* the tray has not asked for the address yet
Unset == [unset |-> TRUE]

\* the ServiceInfo start_mdns_broadcast builds and registers
ServiceRecord(hostname) ==
    LET instance_name == hostname \o <<"_fastsync">>
    IN  [registered   |-> TRUE,
         service_type |-> <<"_photosync._tcp.local.">>,
         instance     |-> instance_name,
         host         |-> instance_name \o <<".local.">>,
         ip           |-> MdnsIp,
         port         |-> MdnsPort]

\* the steps of start_mdns_broadcast that can fail; "none" is success
MdnsFailures == {"none", "ServiceDaemon::new", "ServiceInfo::new", "register"}

\* .expect(..) on each fallible step: main panics
AfterMdnsFailure(failure) == "panicked"

Starting == [pc |-> "start", record |-> NoRecord, mdns |-> "none", tray |-> Unset]

\* no notification is under construction in isolation
NoTimer == [pc |-> "none"]

\* nobody holds the guard of the store's mutex
Free == 0

\* run_event_loop has not been entered
NoLoop == [pc |-> "none"]

\* the process once it serves requests
HostUp ==
    /\ ifaces = [ok |-> TRUE, list |-> <<[name |-> Eth0, ip |-> V4(192, 168, 1, 5)]>>]
    /\ boot = [pc |-> "serving", record |-> ServiceRecord(<<"desk">>), mdns |-> "none",
               tray |-> Unset]
    /\ timer = NoTimer
    /\ mutex = Free
    /\ loop = NoLoop

\* main: start_mdns_broadcast()
start_mdns_broadcast ==
    /\ boot.pc = "start"
    /\ \E hostname \in Hostnames, failure \in MdnsFailures :
           boot' = IF failure = "none"
                   THEN [boot EXCEPT !.pc = "broadcast", !.record = ServiceRecord(hostname)]
                   ELSE [boot EXCEPT !.pc = AfterMdnsFailure(failure), !.mdns = failure]
    /\ UNCHANGED <<ifaces, timer, mutex, loop, textvars, copyvars, clipboard, sysvars>>

\* main: TcpListener::bind(addr).await.unwrap(), axum::serve
serve ==
    /\ boot.pc = "broadcast"
    /\ \E bound \in BOOLEAN :
           boot' = [boot EXCEPT !.pc = IF bound THEN "serving" ELSE "panicked"]
    /\ UNCHANGED <<ifaces, timer, mutex, loop, textvars, copyvars, clipboard, sysvars>>

\* load_icon(icon_path).expect(..): icon.ico is loaded or the thread panics
IconOutcomes == {"loaded", "failed"}

\* "Unknown"
Unknown == <<"U", "n", "k", "n", "o", "w", "n">>

\* get_best_local_ip().unwrap_or_else(|| "Unknown".into())
CurrentIp(net) ==
    LET best == get_best_local_ip(net)
    IN  IF best.some THEN best.ip ELSE Unknown

\* run_event_loop up to event_loop.run: the menu, the icon, the tray icon
\* and current_ip; tao starts with the control flow Poll
run_event_loop ==
    /\ boot.tray = Unset
    /\ loop.pc = "none"
    /\ \E icon \in IconOutcomes :
           IF icon = "loaded"
           THEN /\ boot' = [boot EXCEPT !.tray = get_best_local_ip(ifaces)]
                /\ loop' = [pc |-> "running", control_flow |-> "Poll", icon |-> TRUE,
                            ip |-> CurrentIp(ifaces), dialogs |-> <<>>, last |-> "none",
                            turn |-> 0]
           ELSE /\ loop' = [pc |-> "panicked"]
                /\ UNCHANGED boot
    /\ UNCHANGED <<ifaces, timer, mutex, textvars, copyvars, clipboard, sysvars>>

\* how many interfaces a host has at most
MaxIfaces == 3

\* any host; the tray asks for its address
IpInit ==
    /\ ifaces \in Nets(SeqsUpTo(Interfaces, MaxIfaces))
    /\ boot = Starting
    /\ timer = NoTimer
    /\ mutex = Free
    /\ loop = NoLoop
    /\ TextIdle
    /\ CopyIdle
    /\ SysIdle

IpNext == run_event_loop

SpecIp == IpInit /\ [][IpNext]_vars

\* a host with at most one interface starts the receiver
BootInit ==
    /\ ifaces \in Nets(SeqsUpTo(Interfaces, 1))
    /\ boot = Starting
    /\ timer = NoTimer
    /\ mutex = Free
    /\ loop = NoLoop
    /\ TextIdle
    /\ CopyIdle
    /\ SysIdle

BootNext == start_mdns_broadcast \/ serve \/ run_event_loop

SpecBoot == BootInit /\ [][BootNext]_vars

\* a decoded byte buffer of n bytes; the contents are fixed by a seed so that
\* different buffers differ
Buffer(seed, n) == [i \in 1..n |-> (seed + i) % 256]

\* for chunk in pixels.chunks_exact(3) { extend_from_slice(chunk); push(255) }:
\* a trailing chunk of fewer than 3 bytes is dropped
RgbToRgba(pixels) ==
    [i \in 1..(4 * (Len(pixels) \div 3)) |->
        IF i % 4 = 0 THEN 255 ELSE pixels[3 * ((i - 1) \div 4) + ((i - 1) % 4) + 1]]

\* what JpegDecoder::decode() and decoder.info() can give for some bytes: an
\* error, or a pixel buffer of any length together with the image info or none
JpegOutcomes ==
    {[ok |-> FALSE]}
        \cup [ok : {TRUE}, pixels : {Buffer(7, n) : n \in 1..(3 * MaxDim * MaxDim)},
               info : {[some |-> FALSE]}
                        \cup [some : {TRUE}, width : 1..MaxDim, height : 1..MaxDim]]

\* what image::load_from_memory() followed by to_rgba8() can give: an error, or
\* an RGBA buffer of width * height * 4 bytes
ImageRsOutcomes ==
    {[ok |-> FALSE]}
        \cup {[ok |-> TRUE, width |-> w, height |-> h, raw |-> Buffer(40, w * h * 4)] :
                 w \in 1..MaxDim, h \in 1..MaxDim}

\* arboard: Clipboard::new() fails, set_image fails, or the image is set
ClipboardOutcomes == {"ok", "init_failed", "set_failed"}

\* a plausible slip: the general-purpose decoder is preferred when it succeeds
CopyImageSecondFirst(d1, d2) ==
    IF d2.ok
    THEN [stage  |-> "image-rs",
          width  |-> d2.width,
          height |-> d2.height,
          bytes  |-> d2.raw]
    ELSE IF d1.ok /\ d1.info.some
    THEN [stage  |-> "zune-jpeg",
          width  |-> d1.info.width,
          height |-> d1.info.height,
          bytes  |-> RgbToRgba(d1.pixels)]
    ELSE [stage |-> "none"]

\* the arboard::ImageData copy_to_clipboard builds and the decoder that gave it;
\* stage "none" when both decoders failed
CopyImage(d1, d2) ==
    IF d1.ok /\ d1.info.some
    THEN [stage  |-> "zune-jpeg",
          width  |-> d1.info.width,
          height |-> d1.info.height,
          bytes  |-> RgbToRgba(d1.pixels)]
    ELSE IF d2.ok
    THEN [stage  |-> "image-rs",
          width  |-> d2.width,
          height |-> d2.height,
          bytes  |-> d2.raw]
    ELSE [stage |-> "none"]

\* write_to_clipboard: the clipboard after set_image(image) with outcome co;
\* it is called from the thread copy_to_clipboard spawned
WriteImage(clip, image, co) ==
    IF co = "ok"
    THEN [kind |-> "image", width |-> image.width, height |-> image.height,
          bytes |-> image.bytes, thread |-> "worker"]
    ELSE clip

\* copy_to_clipboard, on the calling thread: clone the bytes, spawn the worker.
\* d1 and d2 are what the two decoders will return for these bytes.
copy_to_clipboard ==
    /\ cw = NoWorker
    /\ \E d1 \in JpegOutcomes, d2 \in ImageRsOutcomes :
           cw' = [pc |-> "spawned", d1 |-> d1, d2 |-> d2]
    /\ UNCHANGED <<clipboard, textvars, hostvars, sysvars>>

\* the body of the spawned thread: the decoders tried, the image handed to
\* write_to_clipboard, the number of calls of write_to_clipboard and what was
\* logged are kept with the finished worker
copy_worker ==
    /\ cw.pc = "spawned"
    /\ \E co \in ClipboardOutcomes :
           LET image == CopyImage(cw.d1, cw.d2)
           IN  /\ cw' = [pc |-> "done", d1 |-> cw.d1, d2 |-> cw.d2, handed |-> image,
                         tried |-> IF image.stage = "zune-jpeg" THEN <<"zune-jpeg">>
                                   ELSE <<"zune-jpeg", "image-rs">>,
                         writes |-> IF image.stage = "none" THEN 0 ELSE 1,
                         log |-> IF image.stage = "none" THEN "decode_failed"
                                 ELSE IF co = "ok" THEN "copied" ELSE co]
               /\ clipboard' = IF image.stage = "none" THEN clipboard
                               ELSE WriteImage(clipboard, image, co)
    /\ UNCHANGED <<textvars, hostvars, sysvars>>

CopyInit ==
    /\ CopyIdle
    /\ TextIdle
    /\ SysIdle
    /\ HostUp

CopyNext == copy_to_clipboard \/ copy_worker

SpecCopy == CopyInit /\ [][CopyNext]_vars

\* C10: the image handed to the clipboard has the width and height the
\* successful decoder reported and a buffer of exactly width * height * 4
\* bytes, with every 4th byte 255 on the first-stage path, whatever the number
\* of bytes the first-stage decoder returned.
C10_CopyImageShape ==
    (cw.pc = "done" /\ cw.handed.stage # "none") =>
        LET im == cw.handed
        IN  /\ Len(im.bytes) = im.width * im.height * 4
            /\ im.stage = "zune-jpeg" =>
                   /\ im.width = cw.d1.info.width
                   /\ im.height = cw.d1.info.height
                   /\ \A i \in 1..Len(im.bytes) : i % 4 = 0 => im.bytes[i] = 255
            /\ im.stage = "image-rs" =>
                   /\ im.width = cw.d2.width
                   /\ im.height = cw.d2.height

(***************************************************************************)
(* SpecText: the markup builders applied to bounded text payloads          *)
(***************************************************************************)
\* n copies of the character c
Rep(c, n) == [i \in 1..n |-> c]

\* pieces the escaping inputs are built from: the three special characters,
\* ready-made entities, and entity fragments
Tokens ==
    {<<"&">>, <<"<">>, <<">">>, Amp, Lt, Gt, <<"a">>, <<";">>,
     <<"l", "t", ";">>, <<"a", "m", "p", ";">>}

RECURSIVE TokenTexts(_)
TokenTexts(n) ==
    IF n = 0 THEN {<<>>}
    ELSE LET shorter == TokenTexts(n - 1)
         IN  shorter \cup {s \o t : s \in shorter, t \in Tokens}

\* texts whose length straddles the preview limit, in characters or in bytes
LongTexts ==
    {Rep(c, n) : c \in {"a", "&", "CJK"},
                 n \in ((PreviewLimit - MaxExtra)..(PreviewLimit + MaxExtra))
                        \cup {PreviewLimit \div 3 + 1, PreviewLimit \div 2}}

Texts == TokenTexts(MaxTokens) \cup LongTexts

Codes == {<<>>, <<"4", "2">>, <<"<">>}

Senders == {<<"B", "o", "b">>, <<"A", "&", "T">>, <<"<", "x", ">">>}

TextJobs ==
    [class : {"sms"}, sender : Senders, content : Texts, code : Codes]
        \cup [class : {"clipboard"}, text : Texts]

TextInit ==
    /\ job \in TextJobs
    /\ markup = NoMarkup
    /\ CopyIdle
    /\ SysIdle
    /\ HostUp

build_sms_markup ==
    /\ job.class = "sms"
    /\ markup = NoMarkup
    /\ markup' = SmsMarkup(job)
    /\ UNCHANGED <<job, copyvars, clipboard, sysvars, hostvars>>

build_clipboard_markup ==
    /\ job.class = "clipboard"
    /\ markup = NoMarkup
    /\ markup' = ClipboardMarkup(job.text)
    /\ UNCHANGED <<job, copyvars, clipboard, sysvars, hostvars>>

TextNext == build_sms_markup \/ build_clipboard_markup

SpecText == TextInit /\ [][TextNext]_vars

(***************************************************************************)
(* The expiry of a notification (i64 arithmetic on clock readings)         *)
(***************************************************************************)
\* An i64 that is not negative is kept as its digits in base 10000, lowest
\* first and without leading zero digits; <<>> is zero.
\* a + b + carry
RECURSIVE BigAddCarry(_, _, _)
BigAddCarry(a, b, carry) ==
    IF a = <<>> /\ b = <<>> THEN (IF carry = 0 THEN <<>> ELSE <<carry>>)
    ELSE LET x == IF a = <<>> THEN 0 ELSE a[1]
             y == IF b = <<>> THEN 0 ELSE b[1]
             sum == x + y + carry
         IN  <<sum % 10000>>
                 \o BigAddCarry(IF a = <<>> THEN <<>> ELSE Tail(a),
                                IF b = <<>> THEN <<>> ELSE Tail(b), sum \div 10000)

BigAdd(a, b) == BigAddCarry(a, b, 0)

\* a * 10_000
BigTimes10000(a) == IF a = <<>> THEN <<>> ELSE <<0>> \o a

\* a < b
RECURSIVE BigLess(_, _)
BigLess(a, b) ==
    IF Len(a) # Len(b) THEN Len(a) < Len(b)
    ELSE IF a = <<>> THEN FALSE
    ELSE IF a[Len(a)] # b[Len(b)] THEN a[Len(a)] < b[Len(b)]
    ELSE BigLess(SubSeq(a, 1, Len(a) - 1), SubSeq(b, 1, Len(b) - 1))

\* a small number as an i64
ToBig(n) == IF n = 0 THEN <<>> ELSE <<n>>

\* i64::MAX = 9_223_372_036_854_775_807
I64Max == <<5807, 5477, 368, 3372, 922>>

\* 116444736000000000: the ticks from 1601-01-01 to 1970-01-01
EpochTicks == <<0, 0, 7360, 6444, 11>>

\* the result of an i64 operation that left the range: a panic in a debug
\* build, a wrapped value in a release build
Overflowed == [ok |-> FALSE]

\* an i64 operation whose exact result is x
I64(x) == IF BigLess(I64Max, x) THEN Overflowed ELSE [ok |-> TRUE, value |-> x]

\* a plausible slip: one time-to-live for every class
TtlSame(class) == <<0, 3>>

\* the time-to-live each show function adds: 30_000 ms, 60_000 ms for SMS
Ttl(class) == IF class = "sms" THEN <<0, 6>> ELSE <<0, 3>>

\* expiration_ticks for the clock reading now_unix_millis:
\* (now_unix_millis + ttl) * 10_000 + 116444736000000000
ExpiryTicks(class, now_unix_millis) ==
    LET expiration_millis == I64(BigAdd(now_unix_millis, Ttl(class)))
        scaled == IF expiration_millis.ok
                  THEN I64(BigTimes10000(expiration_millis.value))
                  ELSE Overflowed
    IN  IF scaled.ok THEN I64(BigAdd(scaled.value, EpochTicks)) ELSE Overflowed

\* a number of up to four digits in base 10000, leading zeros removed
RECURSIVE Normal(_)
Normal(a) ==
    IF a = <<>> THEN <<>>
    ELSE IF a[Len(a)] = 0 THEN Normal(SubSeq(a, 1, Len(a) - 1))
    ELSE a

\* the clock readings tried: from 1970 past the end of the year 9999
\* (253_402_300_799_999 ms) to where the conversion leaves the i64 range
ClockReadings ==
    {Normal(<<a, b, c, e>>) :
        a \in {0, 9999}, b \in {0, 79, 9999}, c \in {0, 4023, 9999},
        e \in {0, 1, 253, 254, 910, 911}}

Classes == {"photo", "sms", "clipboard"}

\* a notification of a class created at a clock reading, no expiry set
TimerInit ==
    /\ timer \in [class : Classes, now : ClockReadings, pc : {"created"}]
    /\ mutex = Free
    /\ loop = NoLoop
    /\ ifaces = [ok |-> TRUE, list |-> <<[name |-> Eth0, ip |-> V4(192, 168, 1, 5)]>>]
    /\ boot = [pc |-> "serving", record |-> ServiceRecord(<<"desk">>), mdns |-> "none",
               tray |-> Unset]
    /\ TextIdle
    /\ CopyIdle
    /\ SysIdle

\* the expiry lines of a show function, up to notification.SetExpirationTime
set_expiration_time ==
    /\ timer.pc = "created"
    /\ timer' = [class |-> timer.class, now |-> timer.now, pc |-> "expiry_set",
                 expiry |-> ExpiryTicks(timer.class, timer.now)]
    /\ UNCHANGED <<ifaces, boot, mutex, loop, textvars, copyvars, clipboard, sysvars>>

ExpiryNext == set_expiration_time

SpecExpiry == TimerInit /\ [][ExpiryNext]_vars

(***************************************************************************)
(* Ingestion: the three handlers and their notification work               *)
(***************************************************************************)
\* DefaultBodyLimit::max(50 * 1024 * 1024)
BodyLimit == 50 * 1024 * 1024

\* A byte string is kept run-length encoded: len copies of the byte fill.
EmptyBytes == [fill |-> 0, len |-> 0]
BytesA == [fill |-> 1, len |-> 2]
BytesB == [fill |-> 2, len |-> 3]
\* with BytesA it fills the body to the limit exactly, with BytesB it exceeds it
BytesRest == [fill |-> 3, len |-> BodyLimit - 2]

\* the fields a body is made of: image data, and other fields small and large
FieldSet ==
    [name : {"data"}, data : {BytesA, BytesB}]
        \cup [name : {"other"}, data : {BytesA, BytesRest}]

\* the multipart bodies a client sends (boundary and header bytes not counted)
Bodies == SeqsUpTo(FieldSet, MaxFields)

\* a plausible slip: the bytes of whichever field came last are taken
ReadFieldsAnyName(fields, i, consumed, image_data) ==
    IF fields = <<>> THEN image_data
    ELSE [some |-> TRUE, data |-> fields[Len(fields)].data]

\* the while-let loop of upload from field i on, `consumed` body bytes read so
\* far. next_field() is None at the end of the body and, through
\* unwrap_or(None), once the body stream has failed; field.bytes() fails when
\* the body limit is crossed inside the field and unwrap_or_default() then
\* yields empty bytes.
RECURSIVE ReadFields(_, _, _, _)
ReadFields(fields, i, consumed, image_data) ==
    IF i > Len(fields) \/ consumed > BodyLimit THEN image_data
    ELSE LET name == fields[i].name
             total == consumed + fields[i].data.len
             data == IF total > BodyLimit THEN EmptyBytes ELSE fields[i].data
         IN  ReadFields(fields, i + 1, total,
                        IF name = "data" THEN [some |-> TRUE, data |-> data]
                        ELSE image_data)

NoImageData == [some |-> FALSE]

RECURSIVE BodySize(_)
BodySize(fields) ==
    IF fields = <<>> THEN 0 ELSE fields[1].data.len + BodySize(Tail(fields))

\* the body holds a field named data that starts within the body limit
HasDataField(fields) ==
    \E i \in 1..Len(fields) :
        /\ fields[i].name = "data"
        /\ BodySize(SubSeq(fields, 1, i - 1)) <= BodyLimit

\* the decoded text payloads
SmsPayloads ==
    {[sender |-> <<"B", "o", "b">>, content |-> <<"h", "i">>, code |-> <<>>],
     [sender |-> <<"A", "&", "T">>, content |-> <<"<", "4", "2", ">">>, code |-> <<"4", "2">>]}

ClipboardPayloads ==
    {[text |-> <<"a", "&", "b">>, timestamp |-> 1], [text |-> <<"x">>, timestamp |-> 2]}

\* a body the Json extractor rejects: the handler body does not run
Malformed == [malformed |-> TRUE]

NoPayload == [none |-> TRUE]

\* a plausible slip: one tag for every class
TagOfShared(class) == "CurrentPhoto"

\* the tag each show function sets
TagOf(class) ==
    IF class = "photo" THEN "CurrentPhoto"
    ELSE IF class = "sms" THEN "sms_sync"
    ELSE "clipboard_sync"

\* notification.SetGroup
Group == "FastSync"

\* the key each show function passes to store_notification
StoreKey(class) == IF class = "sms" THEN "sms" ELSE "clipboard"

\* the fallible steps of a show function, in order; "none" is success
ShowFailures ==
    {"none", "XmlDocument", "LoadXml", "CreateToastNotification", "SetTag", "SetGroup",
     "SetExpirationTime", "Activated", "CreateToastNotifier", "Show"}

\* a plausible slip: the closure keeps the text as it was embedded in the markup
CapturedAsShown(payload) ==
    IF "text" \in DOMAIN payload
    THEN [payload EXCEPT !.text = Escape(Preview(payload.text))]
    ELSE IF "content" \in DOMAIN payload
    THEN [payload EXCEPT !.content = Escape(payload.content), !.code = Escape(payload.code)]
    ELSE payload

\* the data the activation closure owns: the payload its show function was given
Captured(payload) == payload

\* a plausible slip: the toast is shown first and the closure registered after
ShowStepsHandlerLate ==
    <<"XmlDocument", "LoadXml", "CreateToastNotification", "SetTag", "SetGroup",
      "SetExpirationTime", "CreateToastNotifier", "Show", "Activated">>

\* the calls of a show function on its notification, in the order of the source
ShowSteps ==
    <<"XmlDocument", "LoadXml", "CreateToastNotification", "SetTag", "SetGroup",
      "SetExpirationTime", "Activated", "CreateToastNotifier", "Show">>

\* the call has been made when the notification is handed to notifier.Show
BeforeShow(step) ==
    \E i, j \in 1..Len(ShowSteps) :
        /\ ShowSteps[i] = step
        /\ ShowSteps[j] = "Show"
        /\ i < j

\* a property of the notification no call has set
NotSet == [set |-> FALSE]

\* the toast the show function of a class hands to notifier.Show for request
\* r when the clock reads `clock` ms: what the calls made before Show have set
Toast(r, class, payload, clock) ==
    [req      |-> r,
     class    |-> class,
     tag      |-> IF BeforeShow("SetTag") THEN TagOf(class) ELSE "",
     group    |-> IF BeforeShow("SetGroup") THEN Group ELSE "",
     expiry   |-> IF BeforeShow("SetExpirationTime")
                  THEN ExpiryTicks(class, ToBig(clock)) ELSE NotSet,
     actions  |-> IF class = "photo" THEN PhotoActions
                  ELSE IF class = "sms" THEN SmsActions(payload.code)
                  ELSE ClipboardActions,
     handler  |-> BeforeShow("Activated"),
     captured |-> IF BeforeShow("Activated") THEN Captured(payload) ELSE NotSet]

\* notifier.Show: the OS surface replaces the visible toast that has the same
\* tag and group, and leaves the others in place
Show(visible, toast) ==
    {n \in visible : ~(n.tag = toast.tag /\ n.group = toast.group)} \cup {toast}

\* HashMap::insert: the entry under the key is replaced
Insert(map, key, r) == {e \in map : e.key # key} \cup {[key |-> key, req |-> r]}

\* a plausible slip: the error of the show function is turned into the response
StatusAfterShowPropagated(failure) == IF failure = "none" THEN 200 ELSE 500

\* if let Err(e) = show_..._notification(..) { log }; StatusCode::OK
StatusAfterShow(failure) == 200

\* no temp file path yet
NoPath == <<>>

\* one request: its class, the response status (0 while the handler has not
\* returned), the payload, the progress and result of its notification work,
\* the place of its response among all responses (0 while there is none) and
\* the temp file path
Req(class, status, payload, pc, result, over, decoded, order, path) ==
    [class |-> class, status |-> status, payload |-> payload, pc |-> pc,
     result |-> result, over |-> over, decoded |-> decoded, order |-> order,
     path |-> path]

\* the place the next response takes among the responses given so far
NextOrder == Cardinality({r \in 1..Len(reqs) : reqs[r].status # 0}) + 1

NewReq(class, status, payload, pc, result, over, decoded) ==
    Req(class, status, payload, pc, result, over, decoded,
        IF status = 0 THEN 0 ELSE NextOrder, NoPath)

SetReq(r, pc, result, status) ==
    [reqs EXCEPT ![r].pc = pc, ![r].result = result, ![r].status = status,
                 ![r].order = IF reqs[r].status = 0 /\ status # 0 THEN NextOrder
                              ELSE reqs[r].order]

\* bodies of at most one field, within the body limit
SmallBodies == {body \in SeqsUpTo(FieldSet, 1) : BodySize(body) <= BodyLimit}

\* POST /upload with a body drawn from the given set: the multipart loop, then
\* tokio::spawn and 200, or 400
Upload(bodies) ==
    /\ Len(reqs) < MaxReq
    /\ \E body \in bodies :
           LET image_data == ReadFields(body, 1, 0, NoImageData)
               over == BodySize(body) > BodyLimit
               seen == HasDataField(body)
           IN  reqs' = Append(reqs,
                   IF image_data.some
                   THEN NewReq("photo", 200, image_data.data, "spawned", "pending", over, seen)
                   ELSE NewReq("photo", 400, NoPayload, "done", "rejected", over, seen))
    /\ UNCHANGED <<surface, store, leaked, fs, now, clipboard,
                   textvars, hostvars, copyvars>>

\* a write_all that fails part-way leaves a prefix of the data
Prefixes(bytes) == {[fill |-> bytes.fill, len |-> bytes.len \div 2]}

\* the spawned task, first half: save_temp_image(&data); the clock is read for
\* the file name and has not gone back since it was last read
save_temp_image ==
    \E r \in 1..Len(reqs) :
        /\ reqs[r].class = "photo"
        /\ reqs[r].pc = "spawned"
        /\ \E t \in now..MaxClock :
              LET path == TempName(t)
                  data == reqs[r].payload
              IN  /\ now' = t
                  /\ \/ \* File::create fails
                        /\ reqs' = SetReq(r, "done", "not_displayed", reqs[r].status)
                        /\ UNCHANGED fs
                     \/ \* write_all fails
                        /\ \E part \in Prefixes(data) :
                               fs' = [fs EXCEPT ![path] =
                                         [exists |-> TRUE, bytes |-> part, by |-> r, ok |-> FALSE,
                                          thread |-> "task"]]
                        /\ reqs' = SetReq(r, "done", "not_displayed", reqs[r].status)
                     \/ \* Some(path)
                        /\ fs' = [fs EXCEPT ![path] =
                                     [exists |-> TRUE, bytes |-> data, by |-> r, ok |-> TRUE,
                                      thread |-> "task"]]
                        /\ reqs' = [SetReq(r, "saved", "pending", reqs[r].status)
                                        EXCEPT ![r].path = path]
        /\ UNCHANGED <<surface, store, leaked, clipboard, textvars, hostvars, copyvars>>

\* the spawned task, second half: show_notification_with_actions(data, path)
show_notification_with_actions ==
    \E r \in 1..Len(reqs), failure \in ShowFailures :
        /\ reqs[r].class = "photo"
        /\ reqs[r].pc = "saved"
        /\ IF failure = "none"
           THEN /\ surface' = Show(surface, Toast(r, "photo", reqs[r].payload, now))
                /\ leaked' = leaked \cup {r}
                /\ reqs' = SetReq(r, "done", "displayed", reqs[r].status)
           ELSE /\ reqs' = SetReq(r, "done", "not_displayed", reqs[r].status)
                /\ UNCHANGED <<surface, leaked>>
        /\ UNCHANGED <<store, fs, now, clipboard, textvars, hostvars, copyvars>>

\* a JSON handler up to and including notifier.Show: the Json extractor
\* rejects a malformed body before the handler body runs; a failing show
\* function is logged and the handler returns
ReceiveJson(class, body) ==
    LET r == Len(reqs) + 1
    IN  IF body = Malformed
        THEN /\ reqs' = Append(reqs, NewReq(class, 400, NoPayload, "done", "rejected", FALSE, FALSE))
             /\ UNCHANGED surface
        ELSE \E failure \in ShowFailures :
                LET shown == Append(reqs, NewReq(class, 0, body, "shown", "displayed", FALSE, TRUE))
                IN  IF failure = "none"
                    THEN /\ reqs' = shown
                         /\ surface' = Show(surface, Toast(r, class, body, now))
                    ELSE /\ reqs' = Append(reqs, NewReq(class, StatusAfterShow(failure), body,
                                                        "done", "not_displayed", FALSE, TRUE))
                         /\ UNCHANGED surface

\* POST /sms: Json<SmsPayload>, show_sms_notification through notifier.Show
receive_sms ==
    /\ Len(reqs) < MaxReq
    /\ \E body \in SmsPayloads \cup {Malformed} : ReceiveJson("sms", body)
    /\ UNCHANGED <<store, leaked, fs, now, clipboard, textvars, hostvars, copyvars>>

\* POST /clipboard: Json<ClipboardPayload>, show_clipboard_notification
\* through notifier.Show
receive_clipboard ==
    /\ Len(reqs) < MaxReq
    /\ \E body \in ClipboardPayloads \cup {Malformed} : ReceiveJson("clipboard", body)
    /\ UNCHANGED <<store, leaked, fs, now, clipboard, textvars, hostvars, copyvars>>

\* the rest of a JSON handler: store_notification(key, notification), Ok(()),
\* StatusCode::OK. It is a step of its own because the handler runs on one
\* thread of the runtime while other requests and the activation callbacks
\* run on others: they can act between notifier.Show and the insert.
store_notification ==
    \E r \in 1..Len(reqs) :
        /\ reqs[r].class \in {"sms", "clipboard"}
        /\ reqs[r].pc = "shown"
        /\ store' = Insert(store, StoreKey(reqs[r].class), r)
        /\ reqs' = SetReq(r, "done", "displayed", StatusAfterShow("none"))
        /\ UNCHANGED <<surface, leaked, fs, now, clipboard, textvars, hostvars, copyvars>>

(***************************************************************************)
(* Activation: the closures registered with notification.Activated         *)
(***************************************************************************)
\* the handle of request r is still owned: held by the handler that has not
\* stored it yet, held in the keyed store, or leaked
Owned(r) ==
    \/ reqs[r].pc \in {"shown", "locked"}
    \/ r \in leaked
    \/ \E e \in store : e.req = r

\* what args.Arguments() can be: the id of any action, some other string, no
\* arguments at all ("none": args is None), or "error" when the cast of args
\* or Arguments() fails
Arguments ==
    {"save", "copy", "ignore", "copy_content", "copy_code", "copy_clipboard", "other", "none",
     "error"}

\* rfd::FileDialog::save_file(): cancelled (None) or a chosen path
DialogOutcomes == {[some |-> FALSE]} \cup [some : {TRUE}, path : UserPaths]

\* File::create and write_all on the chosen path
WriteOutcomes == {"ok", "create_failed", "write_failed"}

\* a plausible slip: the bytes of the latest accepted upload are written
SaveLatestBytes(toast) ==
    LET accepted == {r \in 1..Len(reqs) : reqs[r].class = "photo" /\ reqs[r].status = 200}
        latest == CHOOSE r \in accepted : \A q \in accepted : q <= r
    IN  reqs[latest].payload

\* the bytes save_file_dialog writes: the slice the closure passes to it
SaveBytes(toast) == toast.captured

\* copy_text_to_clipboard: the clipboard after set_text(text) with outcome co;
\* the request and action the text was written for are noted with it, and
\* the thread that wrote it: the closure calls copy_text_to_clipboard itself
WriteText(clip, text, r, arg, co) ==
    IF co = "ok"
    THEN [kind |-> "text", text |-> text, by |-> r, arg |-> arg, thread |-> "callback"]
    ELSE clip

\* the decoder outcomes drawn when a photo is copied
SomeJpegOutcomes ==
    {[ok |-> FALSE],
     [ok |-> TRUE, pixels |-> Buffer(7, 3), info |-> [some |-> FALSE]],
     [ok |-> TRUE, pixels |-> Buffer(7, 3), info |-> [some |-> TRUE, width |-> 1, height |-> 1]]}

SomeImageRsOutcomes ==
    {[ok |-> FALSE], [ok |-> TRUE, width |-> 1, height |-> 1, raw |-> Buffer(40, 4)]}

\* a plausible slip: an id that is not recognised falls into the last branch
BranchElseLast(class, arg) ==
    IF class = "photo" THEN (IF arg = "save" THEN "save" ELSE "copy")
    ELSE IF class = "sms" THEN (IF arg = "copy_code" THEN "copy_code" ELSE "copy_content")
    ELSE "copy_clipboard"

\* the branch the closure of a class takes for the arguments it is given:
\* the if / else-if chain on `arguments`; "none" when no branch acts (ignore
\* only logs, any other id matches nothing, args is None, the cast fails)
Branch(class, arg) ==
    IF class = "photo" THEN (IF arg \in {"save", "copy"} THEN arg ELSE "none")
    ELSE IF class = "sms"
    THEN (IF arg \in {"copy_content", "copy_code"} THEN arg ELSE "none")
    ELSE (IF arg = "copy_clipboard" THEN arg ELSE "none")

\* what the closure returns: Err from the ? on cast() / Arguments(), else Ok(())
Returns(arg) == IF arg = "error" THEN "Err" ELSE "Ok"

NoOutcome == [none |-> TRUE]

\* what the environment gives to the branch taken: the save dialog and the
\* file write to save, the two decoders to copy
PhotoOutcomes(arg) ==
    IF Branch("photo", arg) = "save" THEN [dlg : DialogOutcomes, wo : WriteOutcomes]
    ELSE IF Branch("photo", arg) = "copy"
    THEN [d1 : SomeJpegOutcomes, d2 : SomeImageRsOutcomes]
    ELSE {NoOutcome}

\* the clipboard's answer to a branch that writes a text
TextOutcomes(class, arg) ==
    IF Branch(class, arg) = "none" THEN {NoOutcome} ELSE [co : ClipboardOutcomes]

\* the closure of show_notification_with_actions, activated on toast n with
\* the given arguments; the activated toast leaves the surface
ActivatePhoto(n, arg, out) ==
    /\ n.class = "photo"
    /\ n.handler
    /\ Owned(n.req)
    /\ surface' = surface \ {n}
    /\ IF Branch("photo", arg) = "save"
       THEN \* save_file_dialog(&image_data_clone), on the callback thread
            /\ IF ~out.dlg.some \/ out.wo = "create_failed"
               THEN UNCHANGED fs
               ELSE IF out.wo = "write_failed"
               THEN \E part \in Prefixes(SaveBytes(n)) :
                       fs' = [fs EXCEPT ![out.dlg.path] =
                                 [exists |-> TRUE, bytes |-> part, by |-> n.req,
                                  ok |-> FALSE, thread |-> "callback"]]
               ELSE fs' = [fs EXCEPT ![out.dlg.path] =
                              [exists |-> TRUE, bytes |-> SaveBytes(n), by |-> n.req,
                               ok |-> TRUE, thread |-> "callback"]]
            /\ UNCHANGED cw
       ELSE IF Branch("photo", arg) = "copy"
       THEN \* copy_to_clipboard(&image_data_clone): spawns the worker
            /\ cw.pc \in {"none", "done"}
            /\ cw' = [pc |-> "spawned", d1 |-> out.d1, d2 |-> out.d2]
            /\ UNCHANGED fs
       ELSE UNCHANGED <<fs, cw>>
    /\ UNCHANGED <<reqs, store, leaked, now, clipboard, textvars, hostvars>>

activate_photo ==
    \E n \in surface, arg \in Arguments :
        \E out \in PhotoOutcomes(arg) : ActivatePhoto(n, arg, out)

\* the closure of show_sms_notification
ActivateSms(n, arg, out) ==
    /\ n.class = "sms"
    /\ n.handler
    /\ Owned(n.req)
    /\ surface' = surface \ {n}
    /\ IF Branch("sms", arg) = "copy_content"
       THEN clipboard' = WriteText(clipboard, n.captured.content, n.req, arg, out.co)
       ELSE IF Branch("sms", arg) = "copy_code"
       THEN clipboard' = WriteText(clipboard, n.captured.code, n.req, arg, out.co)
       ELSE UNCHANGED clipboard
    /\ UNCHANGED <<reqs, store, leaked, fs, now, textvars, hostvars, copyvars>>

activate_sms ==
    \E n \in surface, arg \in Arguments :
        \E out \in TextOutcomes("sms", arg) : ActivateSms(n, arg, out)

\* the closure of show_clipboard_notification
ActivateClipboard(n, arg, out) ==
    /\ n.class = "clipboard"
    /\ n.handler
    /\ Owned(n.req)
    /\ surface' = surface \ {n}
    /\ IF Branch("clipboard", arg) = "copy_clipboard"
       THEN clipboard' = WriteText(clipboard, n.captured.text, n.req, arg, out.co)
       ELSE UNCHANGED clipboard
    /\ UNCHANGED <<reqs, store, leaked, fs, now, textvars, hostvars, copyvars>>

activate_clipboard ==
    \E n \in surface, arg \in Arguments :
        \E out \in TextOutcomes("clipboard", arg) : ActivateClipboard(n, arg, out)

\* POST /upload with any body
upload == Upload(Bodies)

\* POST /upload with a small body
upload_small == Upload(SmallBodies)

Init ==
    /\ SysIdle
    /\ TextIdle
    /\ CopyIdle
    /\ HostUp

Next ==
    \/ upload
    \/ save_temp_image
    \/ show_notification_with_actions
    \/ receive_sms
    \/ receive_clipboard
    \/ store_notification

\* ingestion and display of the three content classes
Spec == Init /\ [][Next]_vars

PhotoNext ==
    \/ upload_small
    \/ save_temp_image
    \/ show_notification_with_actions
    \/ activate_photo
    \/ copy_worker

\* the photo pipeline from upload to the user's action
SpecPhoto == Init /\ [][PhotoNext]_vars

TextActNext ==
    \/ receive_sms
    \/ receive_clipboard
    \/ store_notification
    \/ activate_sms
    \/ activate_clipboard

\* the SMS and clipboard pipelines from request to the user's action
SpecTextAct == Init /\ [][TextActNext]_vars

\* the state after one request of each class was accepted and displayed: the
\* three toasts are on the surface, the photo handle is leaked, the other two
\* are in the store, the temp file is written
ActInit ==
    \E image \in {BytesA, BytesB}, sms \in SmsPayloads, text \in ClipboardPayloads :
        /\ reqs = <<Req("photo", 200, image, "done", "displayed", FALSE, TRUE, 1, TempName(0)),
                    Req("sms", 200, sms, "done", "displayed", FALSE, TRUE, 2, NoPath),
                    Req("clipboard", 200, text, "done", "displayed", FALSE, TRUE, 3, NoPath)>>
        /\ surface = {Toast(1, "photo", image, 0), Toast(2, "sms", sms, 0),
                      Toast(3, "clipboard", text, 0)}
        /\ leaked = {1}
        /\ store = {[key |-> StoreKey("sms"), req |-> 2],
                    [key |-> StoreKey("clipboard"), req |-> 3]}
        /\ fs = [p \in Paths |->
                    IF p = TempName(0)
                    THEN [exists |-> TRUE, bytes |-> image, by |-> 1, ok |-> TRUE,
                          thread |-> "task"]
                    ELSE NoFile]
        /\ now = 0
        /\ clipboard = EmptyClipboard
        /\ TextIdle
        /\ CopyIdle
        /\ HostUp

ActNext ==
    \/ activate_photo
    \/ activate_sms
    \/ activate_clipboard
    \/ copy_worker

\* the user's actions on the toasts of the three content classes
SpecAct == ActInit /\ [][ActNext]_vars

(***************************************************************************)
(* store_notification step by step: lock, insert, unlock                   *)
(***************************************************************************)
\* a plausible slip: the guard outlives store_notification
UnlockLeaked(holder) == holder

\* the MutexGuard `map` is dropped at the end of the if-let block
Unlock(holder) == Free

\* storage.lock() of the handler of request r: it returns once no other
\* thread holds the guard. No thread can panic while holding it, so the
\* result is always Ok.
lock_storage ==
    \E r \in 1..Len(reqs) :
        /\ reqs[r].class \in {"sms", "clipboard"}
        /\ reqs[r].pc = "shown"
        /\ mutex = Free
        /\ mutex' = r
        /\ reqs' = SetReq(r, "locked", reqs[r].result, reqs[r].status)
        /\ UNCHANGED <<store, surface, leaked, fs, now, clipboard, textvars, copyvars,
                       ifaces, boot, timer, loop>>

\* map.insert(tag.to_string(), notification) under the guard
insert_notification ==
    \E r \in 1..Len(reqs) :
        /\ reqs[r].pc = "locked"
        /\ mutex = r
        /\ store' = Insert(store, StoreKey(reqs[r].class), r)
        /\ reqs' = SetReq(r, "inserted", reqs[r].result, reqs[r].status)
        /\ UNCHANGED <<surface, leaked, fs, now, clipboard, textvars, hostvars, copyvars>>

\* the guard is dropped, store_notification returns, the handler returns
\* Ok(()) and the route answers StatusCode::OK
unlock_storage ==
    \E r \in 1..Len(reqs) :
        /\ reqs[r].pc = "inserted"
        /\ mutex = r
        /\ mutex' = Unlock(r)
        /\ reqs' = SetReq(r, "done", "displayed", StatusAfterShow("none"))
        /\ UNCHANGED <<store, surface, leaked, fs, now, clipboard, textvars, copyvars,
                       ifaces, boot, timer, loop>>

StoreNext ==
    \/ receive_sms
    \/ receive_clipboard
    \/ lock_storage
    \/ insert_notification
    \/ unlock_storage
    \/ activate_sms
    \/ activate_clipboard

\* the JSON handlers with store_notification in its three steps, and the
\* activation callbacks; a thread that holds the guard runs on
SpecStore ==
    /\ Init
    /\ [][StoreNext]_vars
    /\ WF_vars(insert_notification)
    /\ WF_vars(unlock_storage)

(***************************************************************************)
(* The tray event loop (tray.rs)                                           *)
(***************************************************************************)
\* the events the closure of event_loop.run is called with: menu events of
\* the quit item and of any other id, tray icon events, other events of tao
TrayEvents ==
    {"menu_quit", "menu_other", "click_left_up", "click_left_down", "click_right_up",
     "tray_move", "os_event"}

\* how many status dialogs are open at once at most
MaxDialogs == 2

\* tao: once the control flow is Exit, what the closure writes to it is dropped
SetControlFlow(current, written) == IF current = "Exit" THEN "Exit" ELSE written

\* a plausible slip: the dialog asks for the address when the icon is clicked
DialogIpNow(started, net) == CurrentIp(net)

\* the IP in the dialog text: current_ip, moved into the closure before run
DialogIp(started, net) == started

\* one call of the closure with an event
handle_event ==
    /\ loop.pc = "running"
    /\ \E event \in TrayEvents :
           LET quit  == event = "menu_quit"
               click == event = "click_left_up"
               wait  == SetControlFlow(loop.control_flow, "Wait")
           IN  /\ click => Len(loop.dialogs) < MaxDialogs
               /\ loop' = [loop EXCEPT
                              !.control_flow = IF quit THEN SetControlFlow(wait, "Exit")
                                               ELSE wait,
                              !.icon = IF quit THEN FALSE ELSE @,
                              !.dialogs = IF click
                                          THEN Append(@, [msg |-> DialogIp(loop.ip, ifaces),
                                                          thread |-> "spawned"])
                                          ELSE @,
                              !.last = event,
                              !.turn = 1 - @]
    /\ UNCHANGED <<ifaces, boot, timer, mutex, textvars, copyvars, clipboard, sysvars>>

\* the user closes one of the open status dialogs; its thread ends
close_dialog ==
    /\ loop.pc = "running"
    /\ \E i \in 1..Len(loop.dialogs) :
           loop' = [loop EXCEPT !.dialogs = SubSeq(@, 1, i - 1) \o SubSeq(@, i + 1, Len(@))]
    /\ UNCHANGED <<ifaces, boot, timer, mutex, textvars, copyvars, clipboard, sysvars>>

\* tao leaves the loop once the control flow is Exit: run ends the process
exit_loop ==
    /\ loop.pc = "running"
    /\ loop.control_flow = "Exit"
    /\ loop' = [loop EXCEPT !.pc = "terminated", !.dialogs = <<>>]
    /\ UNCHANGED <<ifaces, boot, timer, mutex, textvars, copyvars, clipboard, sysvars>>

\* the network of the host changes while the loop runs
network_change ==
    /\ loop.pc = "running"
    /\ ifaces' \in Nets(SeqsUpTo(Interfaces, 1)) \ {ifaces}
    /\ UNCHANGED <<boot, timer, mutex, loop, textvars, copyvars, clipboard, sysvars>>

\* the server runs on a host with at most one interface; main is about to
\* call run_event_loop
TrayInit ==
    /\ ifaces \in Nets(SeqsUpTo(Interfaces, 1))
    /\ boot = [pc |-> "serving", record |-> ServiceRecord(<<"desk">>), mdns |-> "none",
               tray |-> Unset]
    /\ timer = NoTimer
    /\ mutex = Free
    /\ loop = NoLoop
    /\ TextIdle
    /\ CopyIdle
    /\ SysIdle

TrayNext ==
    \/ run_event_loop
    \/ handle_event
    \/ close_dialog
    \/ exit_loop
    \/ network_change

\* the tray loop; tao acts on a control flow of Exit
SpecTray == TrayInit /\ [][TrayNext]_vars /\ WF_vars(exit_loop)

(***************************************************************************)
(* Claims about ingestion and display (Spec)                               *)
(***************************************************************************)
\* request r left nothing behind: no toast, no handle, no file
NoTrace(r) ==
    /\ reqs[r].result = "rejected"
    /\ reqs[r].pc = "done"
    /\ \A n \in surface : n.req # r
    /\ r \notin leaked
    /\ \A e \in store : e.req # r
    /\ \A p \in Paths : fs[p].exists => fs[p].by # r

\* C1: an upload from whose body no field named data is read gets 400, writes
\* no temp file and never leads to a notification or a retained handle; an
\* upload with a data field gets 200; an SMS or clipboard body that fails JSON
\* decoding never reaches its show function.
C1_MissingDataRejected ==
    \A r \in 1..Len(reqs) :
        /\ (reqs[r].class = "photo" /\ ~reqs[r].decoded) =>
               (reqs[r].status = 400 /\ NoTrace(r))
        /\ (reqs[r].class = "photo" /\ reqs[r].decoded) => reqs[r].status = 200
        /\ (reqs[r].class \in {"sms", "clipboard"} /\ ~reqs[r].decoded) => NoTrace(r)

C1_Witness ==
    /\ Len(reqs) = 2
    /\ reqs[1].class = "photo" /\ ~reqs[1].decoded /\ reqs[1].status = 400
    /\ reqs[2].class = "sms" /\ ~reqs[2].decoded /\ reqs[2].result = "rejected"

\* C2: an upload whose body exceeds the 50 MiB cap never gets 200, never has a
\* (possibly empty or partial) data value stored as its payload and never
\* schedules a notification.
C2_OversizeRejected ==
    \A r \in 1..Len(reqs) :
        (reqs[r].class = "photo" /\ reqs[r].over) =>
            /\ reqs[r].status # 200
            /\ reqs[r].payload = NoPayload
            /\ reqs[r].result = "rejected"

\* C3: on each endpoint the success response is produced right after decoding
\* and before any notification work: whenever markup construction, Show or
\* the handle-store insert of an accepted request has run, its response has
\* already been returned.
C3_ResponseBeforeWork ==
    \A r \in 1..Len(reqs) :
        (reqs[r].decoded /\ reqs[r].pc # "spawned") => reqs[r].status = 200

\* C4: once decoding succeeded the response is 200 whatever happens to the
\* temp file, the markup, the tag, group and expiry, the handler registration
\* or Show; the content is then accepted and either displayed or not.
C4_AcceptedAlways200 ==
    \A r \in 1..Len(reqs) :
        reqs[r].decoded =>
            /\ reqs[r].status \in {0, 200}
            /\ reqs[r].pc = "done" =>
                   /\ reqs[r].status = 200
                   /\ reqs[r].result \in {"displayed", "not_displayed"}

C4_Witness ==
    /\ Len(reqs) = 2
    /\ reqs[1].class = "sms" /\ reqs[1].decoded
    /\ reqs[1].result = "not_displayed" /\ reqs[1].status = 200
    /\ reqs[2].class = "photo" /\ reqs[2].decoded /\ reqs[2].pc = "done"
    /\ reqs[2].result = "not_displayed" /\ reqs[2].status = 200

C5_Tags ==
    /\ \A n \in surface :
           /\ n.class = "photo" => n.tag = "CurrentPhoto"
           /\ n.class = "sms" => n.tag = "sms_sync"
           /\ n.class = "clipboard" => n.tag = "clipboard_sync"
           /\ n.group = "FastSync"
    /\ \A n, m \in surface : n.tag = m.tag => n = m
    /\ Cardinality(surface) <= 3

C5_Replaced ==
    \A n \in surface \ surface' : \E m \in surface' \ surface : m.class = n.class

\* C5: the surface shows at most one toast per tag (CurrentPhoto, sms_sync,
\* clipboard_sync, all in group FastSync), so at most three at once; a post
\* replaces only the toast of its own class.
C5_OnePerTag == []C5_Tags /\ [][C5_Replaced]_vars

C5_Witness ==
    /\ Len(reqs) = 2
    /\ reqs[1].class = "sms" /\ reqs[1].result = "displayed"
    /\ reqs[2].class = "sms" /\ reqs[2].result = "displayed"
    /\ \A n \in surface : n.req = 2
    /\ Cardinality(surface) = 1

(***************************************************************************)
(* Claims about the photo pipeline (SpecPhoto)                             *)
(***************************************************************************)
\* C9: the bytes a confirmed save writes to the chosen path are exactly the
\* payload of the upload that produced the activated notification, whatever
\* uploads arrived since.
C9_SaveWritesUploadBytes ==
    \A p \in UserPaths :
        (fs[p].exists /\ fs[p].ok) => fs[p].bytes = reqs[fs[p].by].payload

C9_Witness ==
    /\ Len(reqs) = 2
    /\ \E p \in UserPaths : fs[p].exists /\ fs[p].ok /\ fs[p].by = 1
    /\ reqs[2].status = 200
    /\ reqs[2].payload # reqs[1].payload

(***************************************************************************)
(* Claims about the text actions (SpecTextAct)                             *)
(***************************************************************************)
\* the field of a payload the action id designates
Designated(payload, arg) ==
    IF arg = "copy_content" THEN payload.content
    ELSE IF arg = "copy_code" THEN payload.code
    ELSE payload.text

InSeq(x, s) == \E i \in 1..Len(s) : s[i] = x

\* C6: the SMS action sequence is [copy_content, copy_code, ignore] when the
\* code is non-empty and [copy_content, ignore] when it is empty; copy_code is
\* offered iff the code is non-empty.
C6_SmsActionSet ==
    markup.class = "sms" =>
        /\ markup.actions = IF job.code # <<>>
                            THEN <<"copy_content", "copy_code", "ignore">>
                            ELSE <<"copy_content", "ignore">>
        /\ InSeq("copy_code", markup.actions) <=> (Len(job.code) > 0)

C6_Witness ==
    /\ markup.class = "sms"
    /\ job.code = <<"4", "2">>
    /\ markup.actions = <<"copy_content", "copy_code", "ignore">>

\* the text a builder renders as the notification body
BodyText == IF job.class = "sms" THEN job.content ELSE job.text

\* C7: for the clipboard text and the SMS content alike, the body preview is
\* the first 100 characters plus an ellipsis iff the character count exceeds
\* 100, and the text verbatim otherwise.
C7_PreviewAllBodies ==
    markup.class \in {"sms", "clipboard"} =>
        markup.preview = IF Len(BodyText) > 100
                         THEN SubSeq(BodyText, 1, 100) \o <<".", ".", ".">>
                         ELSE BodyText

\* un-escaping as the claim gives it: &lt; -> <, &gt; -> >, &amp; -> &
Unescape(e) ==
    ReplaceAll(ReplaceAll(ReplaceAll(e, Lt, <<"<">>), Gt, <<">">>), Amp, <<"&">>)

EntityAt(e, i) ==
    \/ i + 4 <= Len(e) /\ SubSeq(e, i, i + 4) = Amp
    \/ i + 3 <= Len(e) /\ SubSeq(e, i, i + 3) \in {Lt, Gt}

WellEscaped(e) ==
    \A i \in 1..Len(e) :
        /\ e[i] \notin {"<", ">"}
        /\ e[i] = "&" => EntityAt(e, i)

\* the (original, escaped) pairs a builder embedded in its markup
EscapedPairs ==
    IF markup.class = "sms"
    THEN {<<job.sender, markup.title>>, <<job.content, markup.body>>}
    ELSE IF markup.class = "clipboard"
    THEN {<<markup.preview, markup.body>>}
    ELSE {}

\* C8: escaped text holds no raw < or >, every & starts one of the three
\* entities, and un-escaping restores the original text exactly.
C8_EscapeRoundTrip ==
    \A pr \in EscapedPairs :
        /\ WellEscaped(pr[2])
        /\ Unescape(pr[2]) = pr[1]

C8_Witness ==
    /\ markup.class = "clipboard"
    /\ job.text = Lt \o <<"<">>
    /\ markup.body = Amp \o <<"l", "t", ";">> \o Lt


(***************************************************************************)
(* Claims about local IP selection (SpecIp)                                *)
(***************************************************************************)
\* the address is in one of the two ranges get_best_local_ip leaves out
Excluded(ip) ==
    ip.v = 4 /\ (ip.o[1] = 127 \/ (ip.o[1] = 169 /\ ip.o[2] = 254))

\* the prefix rank of an address: 192.168.* 3, 10.* and 172.* 2, others 1
Rank(ip) ==
    IF ip.v = 4 /\ ip.o[1] = 192 /\ ip.o[2] = 168 THEN 3
    ELSE IF ip.v = 4 /\ ip.o[1] \in {10, 172} THEN 2
    ELSE 1

\* interface i of the list is preferred to interface j
Preferred(list, i, j) ==
    LET vi == list[i].name \in {Docker0, Wsl}
        vj == list[j].name \in {Docker0, Wsl}
    IN  \/ Rank(list[i].ip) > Rank(list[j].ip)
        \/ Rank(list[i].ip) = Rank(list[j].ip) /\ ~vi /\ vj
        \/ Rank(list[i].ip) = Rank(list[j].ip) /\ vi = vj /\ i < j

Loopback(ip) ==
    \/ ip.v = 4 /\ ip.o[1] = 127
    \/ ip.v = 6 /\ ip.g = <<0, 0, 0, 0, 0, 0, 0, 1>>

\* the address is link-local (169.254.0.0/16, fe80::/10)
LinkLocal(ip) ==
    \/ ip.v = 4 /\ ip.o[1] = 169 /\ ip.o[2] = 254
    \/ ip.v = 6 /\ ip.g[1] \div 64 = 1018

\* C13: for every interface list, with IPv4 or IPv6 addresses, the address
\* get_best_local_ip returns is neither loopback nor link-local, and the
\* result is None when every address is loopback or link-local.
C13_NeverLoopbackOrLinkLocal ==
    (boot.tray # Unset /\ ifaces.ok) =>
        LET list == ifaces.list
            usable == {i \in 1..Len(list) :
                          ~Loopback(list[i].ip) /\ ~LinkLocal(list[i].ip)}
        IN  /\ boot.tray.some =>
                   \E i \in usable : boot.tray.ip = IpString(list[i].ip)
            /\ usable = {} => boot.tray = NoAddress

(***************************************************************************)
(* Claims about startup and discovery (SpecBoot)                           *)
(***************************************************************************)
\* C14: the registered discovery record has service type
\* _photosync._tcp.local., instance <hostname>_fastsync, host
\* <instance>.local., the port the gateway listens on (3000), and the IP
\* address the local-IP selection chose, which the tray reports.
C14_RecordAdvertisesSelectedIp ==
    (boot.record.registered /\ boot.tray # Unset) =>
        /\ boot.record.service_type = <<"_photosync._tcp.local.">>
        /\ \E hostname \in Hostnames :
               /\ boot.record.instance = hostname \o <<"_fastsync">>
               /\ boot.record.host = hostname \o <<"_fastsync", ".local.">>
        /\ boot.record.port = ListenPort
        /\ boot.record.port = 3000
        /\ boot.tray.some => boot.record.ip = boot.tray.ip

\* C15: a discovery failure never blocks startup: when no usable local IP
\* exists, or the daemon, the service record or the registration fails,
\* discovery is skipped (nothing is registered) and main goes on to bind the
\* port; it never ends in the discovery step.
C15_DiscoveryNeverBlocks ==
    /\ boot.mdns # "none" => (boot.pc # "panicked" /\ ~boot.record.registered)
    /\ (boot.pc \in {"broadcast", "serving"} /\ ~get_best_local_ip(ifaces).some) =>
           ~boot.record.registered


(***************************************************************************)
(* Claims about the activation callbacks (SpecAct)                         *)
(***************************************************************************)
\* nothing local happened in the step: clipboard and files as before, no worker
NoLocalEffect ==
    /\ clipboard' = clipboard
    /\ fs' = fs
    /\ cw' = cw

\* the ids a class acts on
Handled(class) ==
    IF class = "photo" THEN {"save", "copy"}
    ELSE IF class = "sms" THEN {"copy_content", "copy_code"}
    ELSE {"copy_clipboard"}

\* C16: for every notification of every class, an activation with the id
\* ignore, with an id the class does not handle (the id of another class
\* included) or with no arguments, and a save whose dialog is cancelled,
\* leaves the clipboard and the files unchanged and starts no worker, and
\* the callback returns success.
C16_NoOpActivations ==
    [][\A n \in surface :
          surface' = surface \ {n} =>
              \A arg \in Arguments \ {"error"} :
                  /\ \A out \in PhotoOutcomes(arg) :
                         (/\ arg \notin Handled("photo") \/ (arg = "save" /\ ~out.dlg.some)
                          /\ ActivatePhoto(n, arg, out))
                             => (NoLocalEffect /\ Returns(arg) = "Ok")
                  /\ \A out \in TextOutcomes("sms", arg) :
                         (arg \notin Handled("sms") /\ ActivateSms(n, arg, out))
                             => (NoLocalEffect /\ Returns(arg) = "Ok")
                  /\ \A out \in TextOutcomes("clipboard", arg) :
                         (arg \notin Handled("clipboard") /\ ActivateClipboard(n, arg, out))
                             => (NoLocalEffect /\ Returns(arg) = "Ok")]_vars

\* the toasts of all three classes were activated without a local effect:
\* none is left, and the clipboard, the user's files and the worker are
\* untouched
C16_Witness ==
    /\ Len(reqs) = 3
    /\ surface = {}
    /\ clipboard = EmptyClipboard
    /\ \A p \in UserPaths : ~fs[p].exists
    /\ cw = NoWorker

\* C17: every local effect of an action (the decode and clipboard write of
\* copy, the dialog and file write of save, the clipboard write of the text
\* actions) is made by a worker, not by the thread that delivered the
\* activation callback.
C17_EffectsOffCallbackThread ==
    /\ clipboard.kind # "empty" => clipboard.thread = "worker"
    /\ \A p \in UserPaths : fs[p].exists => fs[p].thread = "worker"


(***************************************************************************)
(* Claims about concurrent submissions (Spec)                              *)
(***************************************************************************)
\* C18: in every reachable state, under any interleaving of submissions of
\* one class, the handle of each visible notification is still owned: held
\* by its handler in flight, held in the keyed store, or leaked.
C18_VisibleHandleOwned == \A n \in surface : Owned(n.req)

\* C19: when a photo notification is shown, the temp file its markup names
\* has been written completely and holds exactly the bytes of the upload
\* that produced the notification, under any interleaving of uploads.
C19_TempFileHoldsUpload ==
    [][\A n \in surface' \ surface :
          n.class = "photo" =>
              LET file == fs[reqs[n.req].path]
              IN  /\ file.exists
                  /\ file.ok
                  /\ file.bytes = reqs[n.req].payload]_vars

\* request b is the last accepted request of its class
LastOfClass(b) ==
    \A c \in 1..Len(reqs) :
        (c # b /\ reqs[c].class = reqs[b].class /\ reqs[c].decoded) =>
            (reqs[c].order # 0 /\ reqs[c].order < reqs[b].order)

\* C20: if A was accepted (its response returned) before B of the same
\* class, both were posted successfully, no later request of the class came
\* and both background units have finished, the notification visible for
\* the tag is B's, never A's.
C20_LatestVisible ==
    \A a, b \in 1..Len(reqs) :
        (/\ reqs[a].class = reqs[b].class
         /\ reqs[a].order # 0 /\ reqs[a].order < reqs[b].order
         /\ reqs[a].pc = "done" /\ reqs[a].result = "displayed"
         /\ reqs[b].pc = "done" /\ reqs[b].result = "displayed"
         /\ LastOfClass(b))
            => \A n \in surface : n.class = reqs[b].class => n.req = b


(***************************************************************************)
(* Claims about the decode chain (SpecPhoto)                               *)
(***************************************************************************)
\* the worker that was running has finished in this step
WorkerFinishes == cw.pc = "spawned" /\ cw'.pc = "done"

C21_Stages ==
    cw.pc = "done" =>
        LET first == cw.d1.ok /\ cw.d1.info.some
        IN  /\ cw.tried = IF first THEN <<"zune-jpeg">> ELSE <<"zune-jpeg", "image-rs">>
            /\ cw.writes <= 1
            /\ cw.handed.stage = IF first THEN "zune-jpeg"
                                 ELSE IF cw.d2.ok THEN "image-rs" ELSE "none"
            /\ cw.writes = 1 <=> cw.handed.stage # "none"
            /\ cw.handed.stage = "none" => cw.log = "decode_failed"

C21_Written ==
    WorkerFinishes =>
        /\ cw'.handed.stage = "none" => clipboard' = clipboard
        /\ clipboard' # clipboard =>
               /\ clipboard'.kind = "image"
               /\ clipboard'.bytes = cw'.handed.bytes
               /\ clipboard'.width = cw'.handed.width
               /\ clipboard'.height = cw'.handed.height

\* C21: for every photo copy the general-purpose decoder is tried exactly
\* when the JPEG stage gave no image (an error, or pixels without info); the
\* clipboard is written at most once, with the image of the first stage that
\* succeeded; when both stages fail the clipboard is unchanged and the
\* failure is logged.
C21_DecodeChain == []C21_Stages /\ [][C21_Written]_vars

\* a copy failed in both stages after an earlier copy had put an image on
\* the clipboard, which is still there
C21_Witness ==
    /\ cw.pc = "done"
    /\ cw.handed.stage = "none"
    /\ cw.log = "decode_failed"
    /\ clipboard.kind = "image"


(***************************************************************************)
(* Claims about the retained handles (Spec)                                *)
(***************************************************************************)
\* the requests whose notification handle the process still holds
Retained == leaked \cup {e.req : e \in store}

\* C23: the keyed store holds at most one entry per content class, each
\* entry is keyed by the tag of the notification it holds, and the handles
\* the process retains are at most one per content class however many
\* notifications were received.
C23_RetainedHandlesBounded ==
    /\ \A e, f \in store : reqs[e.req].class = reqs[f.req].class => e = f
    /\ \A r, q \in Retained : reqs[r].class = reqs[q].class => r = q
    /\ Cardinality(Retained) <= 3
    /\ \A e \in store : e.key = TagOf(reqs[e.req].class)


\* the last millisecond of the year 9999: 253_402_300_799_999
Year9999End == <<9999, 79, 4023, 253>>

\* the time-to-live the specification states for a class, in ms
StatedTtl(class) == IF class \in {"photo", "clipboard"} THEN <<0, 3>> ELSE <<0, 6>>

\* the ticks of a Unix time in ms: ms * 10_000 + 116_444_736_000_000_000
TicksOf(unix_ms) == BigAdd(BigTimes10000(unix_ms), EpochTicks)

\* C24: the expiry set on a notification is the construction-time clock
\* reading plus 30 000 ms (photo, clipboard) or 60 000 ms (SMS), converted to
\* 100 ns ticks since 1601 as (unix_ms + ttl_ms) * 10 000 +
\* 116 444 736 000 000 000; for every reading from 0 to the end of the year
\* 9999 no step of the conversion leaves the signed 64-bit range, and the
\* expiry is strictly later than the construction time.
C24_ExpiryConversion ==
    (timer.pc = "expiry_set" /\ ~BigLess(Year9999End, timer.now)) =>
        /\ timer.expiry.ok
        /\ timer.expiry.value = TicksOf(BigAdd(timer.now, StatedTtl(timer.class)))
        /\ ~BigLess(I64Max, timer.expiry.value)
        /\ BigLess(TicksOf(timer.now), timer.expiry.value)

C24_Witness ==
    /\ timer.pc = "expiry_set"
    /\ timer.class = "sms"
    /\ timer.now = Year9999End
    /\ timer.expiry.ok
    /\ timer.expiry.value = <<0, 9999, 7445, 467, 265>>


\* the handler of request r has returned, so its own payload value is dropped
Returned(r) == reqs[r].pc = "done"

HolderInside ==
    mutex # Free =>
        /\ mutex \in 1..Len(reqs)
        /\ reqs[mutex].pc \in {"locked", "inserted"}

\* a handler that has left store_notification does not hold the guard, and
\* a handler that has not called it yet does not either
ReleasedOnReturn ==
    \A r \in 1..Len(reqs) : reqs[r].pc \notin {"locked", "inserted"} => mutex # r

\* the store changes only in a step of the guard's holder, by one insert,
\* and the holder inserts no second time
StoreUnderGuard ==
    store' # store =>
        /\ mutex # Free
        /\ mutex' = mutex
        /\ reqs[mutex].pc = "locked"
        /\ reqs'[mutex].pc = "inserted"
        /\ store' = Insert(store, StoreKey(reqs[mutex].class), mutex)

\* a blocking OS call (Show, clipboard write, file write) made while the
\* guard is held is made by another thread: the holder does not move
NoOsCallUnderGuard ==
    (mutex # Free /\ (surface' # surface \/ clipboard' # clipboard \/ fs' # fs)) =>
        /\ mutex' = mutex
        /\ reqs'[mutex] = reqs[mutex]

\* the handler of request r is at a point of its code
AtPc(r, pc) == IF r <= Len(reqs) THEN reqs[r].pc = pc ELSE FALSE

\* C22: the keyed store is accessed only while its mutex is held; the mutex
\* is held for exactly one insert and released before store_notification
\* returns; it is never held by a thread that is in a blocking OS call; so
\* a held mutex always becomes free again and no interleaving of concurrent
\* handlers deadlocks on the store.
C22_StoreUnderMutex ==
    /\ [](HolderInside /\ ReleasedOnReturn)
    /\ [][StoreUnderGuard /\ NoOsCallUnderGuard]_vars
    /\ (mutex # Free ~> mutex = Free)
    /\ \A r \in 1..MaxReq : AtPc(r, "locked") ~> (AtPc(r, "done") /\ mutex # r)

\* two handlers contend: one is inside store_notification after its insert
\* while the other has shown its toast and waits for the guard
C22_Witness ==
    /\ mutex # Free
    /\ reqs[mutex].pc = "inserted"
    /\ \E e \in store : e.req = mutex
    /\ \E r \in 1..Len(reqs) : r # mutex /\ reqs[r].pc = "shown"
                                /\ reqs[r].class = reqs[mutex].class


\* the closure has just been called with the event
Delivered(event) ==
    /\ loop.pc = "running"
    /\ loop'.pc = "running"
    /\ loop'.turn # loop.turn
    /\ loop'.last = event

\* the quit menu event releases the tray icon and sets the control flow to Exit
QuitExits == Delivered("menu_quit") => (~loop'.icon /\ loop'.control_flow = "Exit")

\* any other event leaves the icon alone, opens no dialog unless it is the
\* left-button-up click, and leaves the control flow at Wait (at Exit once
\* the quit event has been delivered)
OthersKeep ==
    \A event \in TrayEvents \ {"menu_quit"} :
        Delivered(event) =>
            /\ loop'.icon = loop.icon
            /\ loop'.control_flow = IF loop.control_flow = "Exit" THEN "Exit" ELSE "Wait"
            /\ event # "click_left_up" => loop'.dialogs = loop.dialogs

\* the left-button-up click opens the status dialog on a thread of its own,
\* with the address chosen before the loop started
ClickShows ==
    Delivered("click_left_up") =>
        loop'.dialogs = Append(loop.dialogs,
                               [msg |-> IF boot.tray.some THEN boot.tray.ip ELSE Unknown,
                                thread |-> "spawned"])

\* until the quit event is delivered the icon is in place
IconInPlace ==
    loop.pc = "running" => (loop.icon <=> loop.control_flow # "Exit")

=============================================================================
